---- MODULE Spec2Model ----
(***************************************************************************)
(* Model of the request forwarder of the frontend simulator                *)
(* (py/frontend-simulator/main.py, handler proxy_request).                  *)
(*                                                                         *)
(* A handler invocation is a coroutine.  Between two awaits it runs        *)
(* atomically on the event loop, so the model has one action per segment   *)
(* of the coroutine and one action per thing the transport or the remote   *)
(* can do while the coroutine is suspended.                                *)
(*                                                                         *)
(* Text is a sequence of one-character strings wherever the program looks  *)
(* inside it (the remote's payload); it is a plain string where the        *)
(* program only copies or concatenates it (url, method, path, body).       *)
(***************************************************************************)
EXTENDS Integers, Sequences, FiniteSets, TLC

VARIABLES
    PROXY_URL,    \* the module global read by every invocation
    pc,           \* per handler slot: where its coroutine is
    args,         \* per slot: the form fields the invocation was made with
    result,       \* per slot: the local dict `result`
    raised,       \* per slot: the exception propagating out of the with block
    sent,         \* per slot: the requests handed to the transport, in order
    inflight,     \* per slot: status line and headers received, body pending
    waited,       \* per slot: seconds since the transport last received bytes
    elapsed,      \* per slot: seconds since the request was sent
    remote,       \* per slot: what the remote and the transport did (history)
    invocations,  \* number of invocations so far
    outbound      \* number of requests handed to the transport so far

vars == <<PROXY_URL, pc, args, result, raised, sent, inflight, waited, elapsed,
          remote, invocations, outbound>>

----------------------------------------------------------------------------
(* Bounds of the model *)

\* concurrent handler slots of the concurrent specification
NumCalls == 2
\* invocations in one behaviour
MaxInvocations == 2
\* the elapsed time of an exchange is recorded up to this many seconds
MaxElapsed == 45

Calls == 1..NumCalls

\* Python's None and a present value
None == <<>>
Some(v) == <<v>>
IsSet(o) == o # None

Min(a, b) == IF a < b THEN a ELSE b

----------------------------------------------------------------------------
(* Python values produced by json.loads / response.text *)

PyVal(tag, atom, items) == [tag |-> tag, atom |-> atom, items |-> items]
PyNone == PyVal("None", <<>>, <<>>)
PyTrue == PyVal("True", <<>>, <<>>)
PyFalse == PyVal("False", <<>>, <<>>)
PyInt(digits) == PyVal("int", digits, <<>>)
PyStr(chars) == PyVal("str", chars, <<>>)
PyList(items) == PyVal("list", <<>>, items)
\* a dict is kept as its items in insertion order: key, value, key, value, ...
PyDict(items) == PyVal("dict", <<>>, items)

Digits == {"0", "1", "2", "3", "4", "5", "6", "7", "8", "9"}

\* d[key] = value on the items of a dict: a repeated key keeps its place
RECURSIVE DictSet(_, _, _, _)
DictSet(items, key, value, i) ==
    IF i > Len(items) THEN items \o <<key, value>>
    ELSE IF items[i] = key THEN [items EXCEPT ![i + 1] = value]
    ELSE DictSet(items, key, value, i + 2)

ParseFail == [ok |-> FALSE, val |-> PyNone, next |-> 0]
Parsed(v, n) == [ok |-> TRUE, val |-> v, next |-> n]

RECURSIVE SkipWs(_, _)
SkipWs(s, i) == IF i <= Len(s) /\ s[i] = " " THEN SkipWs(s, i + 1) ELSE i

HasLiteral(s, i, word) ==
    /\ i + Len(word) - 1 <= Len(s)
    /\ \A k \in 1..Len(word) : s[i + k - 1] = word[k]

RECURSIVE ScanDigits(_, _)
ScanDigits(s, i) == IF i <= Len(s) /\ s[i] \in Digits THEN ScanDigits(s, i + 1) ELSE i

\* index of the closing quote of a string whose content starts at i, 0 if none
RECURSIVE ScanString(_, _)
ScanString(s, i) ==
    IF i > Len(s) THEN 0
    ELSE IF s[i] = "\"" THEN i
    ELSE ScanString(s, i + 1)

ParseString(s, i) ==
    IF i > Len(s) \/ s[i] # "\"" THEN ParseFail
    ELSE LET e == ScanString(s, i + 1)
         IN IF e = 0 THEN ParseFail
            ELSE Parsed(PyStr(SubSeq(s, i + 1, e - 1)), e + 1)

RECURSIVE ParseValue(_, _)
RECURSIVE ParseItems(_, _, _)
RECURSIVE ParseMembers(_, _, _)

\* the elements of an array after "[" or after a comma, up to "]"
ParseItems(s, i, acc) ==
    LET v == ParseValue(s, i)
    IN IF ~v.ok THEN ParseFail
       ELSE LET j == SkipWs(s, v.next)
            IN IF j > Len(s) THEN ParseFail
               ELSE IF s[j] = "]" THEN Parsed(PyList(Append(acc, v.val)), j + 1)
               ELSE IF s[j] = "," THEN ParseItems(s, j + 1, Append(acc, v.val))
               ELSE ParseFail

\* the members of an object after "{" or after a comma, up to "}"
ParseMembers(s, i, acc) ==
    LET k == ParseString(s, SkipWs(s, i))
    IN IF ~k.ok THEN ParseFail
       ELSE LET c == SkipWs(s, k.next)
            IN IF c > Len(s) \/ s[c] # ":" THEN ParseFail
               ELSE LET v == ParseValue(s, c + 1)
                    IN IF ~v.ok THEN ParseFail
                       ELSE LET j == SkipWs(s, v.next)
                                items == DictSet(acc, k.val, v.val, 1)
                            IN IF j > Len(s) THEN ParseFail
                               ELSE IF s[j] = "}" THEN Parsed(PyDict(items), j + 1)
                               ELSE IF s[j] = "," THEN ParseMembers(s, j + 1, items)
                               ELSE ParseFail

ParseValue(s, i) ==
    LET j == SkipWs(s, i)
    IN IF j > Len(s) THEN ParseFail
       ELSE IF HasLiteral(s, j, <<"t", "r", "u", "e">>) THEN Parsed(PyTrue, j + 4)
       ELSE IF HasLiteral(s, j, <<"f", "a", "l", "s", "e">>) THEN Parsed(PyFalse, j + 5)
       ELSE IF HasLiteral(s, j, <<"n", "u", "l", "l">>) THEN Parsed(PyNone, j + 4)
       ELSE IF s[j] = "0" THEN Parsed(PyInt(<<"0">>), j + 1)
       ELSE IF s[j] \in Digits
            THEN LET e == ScanDigits(s, j) IN Parsed(PyInt(SubSeq(s, j, e - 1)), e)
       ELSE IF s[j] = "\"" THEN ParseString(s, j)
       ELSE IF s[j] = "["
            THEN LET e == SkipWs(s, j + 1)
                 IN IF e <= Len(s) /\ s[e] = "]" THEN Parsed(PyList(<<>>), e + 1)
                    ELSE ParseItems(s, j + 1, <<>>)
       ELSE IF s[j] = "{"
            THEN LET e == SkipWs(s, j + 1)
                 IN IF e <= Len(s) /\ s[e] = "}" THEN Parsed(PyDict(<<>>), e + 1)
                    ELSE ParseMembers(s, j + 1, <<>>)
       ELSE ParseFail

\* response.json(): one JSON document, nothing but white space after it
json_loads(s) ==
    LET v == ParseValue(s, 1)
    IN IF v.ok /\ SkipWs(s, v.next) = Len(s) + 1 THEN v ELSE ParseFail

\* a body conversion without the fall back to the text
response_dataNoFallback(text) ==
    LET v == json_loads(text) IN IF v.ok THEN v.val ELSE PyNone

\* try: response.json()  except: response.text
response_data(text) ==
    LET v == json_loads(text) IN IF v.ok THEN v.val ELSE PyStr(text)

----------------------------------------------------------------------------
(* The forwarder *)

\* httpx.AsyncClient(timeout=30.0): seconds the transport waits for the next
\* bytes of the exchange before it raises a timeout
TIMEOUT == 30

\* seconds that pass in one step of the clock
TickSeconds == 15

\* a url that joins the path with a separator of its own
UrlJoined(base, agent_id, path) == base \o "/proxy/" \o agent_id \o "/" \o path

\* url = f"{PROXY_URL}/proxy/{agent_id}{path}"
Url(base, agent_id, path) == base \o "/proxy/" \o agent_id \o path

\* result = {"request": {...}, "response": None, "error": None}
InitialResult(url, method, path, agent_id) ==
    [request |-> [url |-> url, method |-> method, path |-> path, agent_id |-> agent_id],
     response |-> None,
     error |-> None]

\* what client.get / post / put / delete hand to the transport
OutRequest(method, url, content, headers) ==
    [method |-> method, url |-> url, content |-> content, headers |-> headers]

JsonHeaders == {<<"Content-Type", "application/json">>}

Call(req) == [request |-> Some(req), raise |-> None]
Raise(message) == [request |-> None, raise |-> Some(message)]

\* a dispatch that compares the method without regard to case
DispatchAnyCase(method, url, body) ==
    IF method \in {"GET", "get"} THEN Call(OutRequest("GET", url, None, {}))
    ELSE IF method = "POST" THEN Call(OutRequest("POST", url, Some(body), JsonHeaders))
    ELSE IF method = "PUT" THEN Call(OutRequest("PUT", url, Some(body), JsonHeaders))
    ELSE IF method = "DELETE" THEN Call(OutRequest("DELETE", url, None, {}))
    ELSE Raise("Unsupported method: " \o method)

\* a dispatch that passes the body and the header along for every method
DispatchBodyAlways(method, url, body) ==
    IF method \in {"GET", "POST", "PUT", "DELETE"}
    THEN Call(OutRequest(method, url, Some(body), JsonHeaders))
    ELSE Raise("Unsupported method: " \o method)

\* the if / elif chain on method: the request to make, or the ValueError raised
Dispatch(method, url, body) ==
    IF method = "GET" THEN Call(OutRequest("GET", url, None, {}))
    ELSE IF method = "POST" THEN Call(OutRequest("POST", url, Some(body), JsonHeaders))
    ELSE IF method = "PUT" THEN Call(OutRequest("PUT", url, Some(body), JsonHeaders))
    ELSE IF method = "DELETE" THEN Call(OutRequest("DELETE", url, None, {}))
    ELSE Raise("Unsupported method: " \o method)

\* str(e): an exception is modelled by its message
StrOf(message) == message

\* dict(response.headers) on the header lines received, names as the transport
\* reports them; the values of a repeated name are joined with ", "
RECURSIVE JoinValues(_, _, _)
JoinValues(pairs, name, i) ==
    IF i > Len(pairs) THEN ""
    ELSE LET rest == JoinValues(pairs, name, i + 1)
         IN IF pairs[i][1] # name THEN rest
            ELSE IF rest = "" THEN pairs[i][2]
            ELSE pairs[i][2] \o ", " \o rest

HeadersDict(pairs) ==
    [name \in {pairs[i][1] : i \in DOMAIN pairs} |-> JoinValues(pairs, name, 1)]

\* result["response"] = {"status_code": ..., "headers": ..., "body": ..., "elapsed_ms": ...}
ResponseDict(status_code, headers, text, seconds) ==
    [status_code |-> status_code,
     headers |-> HeadersDict(headers),
     body |-> response_data(text),
     elapsed_ms |-> seconds * 1000]

\* a slot with no invocation in it
NoArgs == [agent_id |-> "", method |-> "", path |-> "", body |-> ""]
NoResult == InitialResult("", "", "", "")
NoRemote ==
    [kind |-> "none", status |-> 0, headers |-> <<>>, payload |-> <<>>, message |-> "",
     close |-> "none"]

Init ==
    /\ PROXY_URL = "http://localhost:8080"
    /\ pc = [c \in Calls |-> "idle"]
    /\ args = [c \in Calls |-> NoArgs]
    /\ result = [c \in Calls |-> NoResult]
    /\ raised = [c \in Calls |-> None]
    /\ sent = [c \in Calls |-> <<>>]
    /\ inflight = [c \in Calls |-> None]
    /\ waited = [c \in Calls |-> 0]
    /\ elapsed = [c \in Calls |-> 0]
    /\ remote = [c \in Calls |-> NoRemote]
    /\ invocations = 0
    /\ outbound = 0

\* proxy_request from its entry to its first await: the url and the result are
\* built, the client is made, and either a request is handed to the transport
\* (await client.get / post / put / delete) or ValueError leaves the with block
\* (await of the client's __aexit__)
proxy_request(c, agent_id, method, path, body) ==
    /\ pc[c] = "idle"
    /\ invocations < MaxInvocations
    /\ LET url == Url(PROXY_URL, agent_id, path)
           d == Dispatch(method, url, body)
       IN /\ args' = [args EXCEPT ![c] =
                         [agent_id |-> agent_id, method |-> method, path |-> path, body |-> body]]
          /\ result' = [result EXCEPT ![c] = InitialResult(url, method, path, agent_id)]
          /\ IF IsSet(d.request)
             THEN /\ sent' = [sent EXCEPT ![c] = <<d.request[1]>>]
                  /\ outbound' = outbound + 1
                  /\ pc' = [pc EXCEPT ![c] = "awaiting"]
                  /\ raised' = [raised EXCEPT ![c] = None]
             ELSE /\ sent' = [sent EXCEPT ![c] = <<>>]
                  /\ outbound' = outbound
                  /\ pc' = [pc EXCEPT ![c] = "closing"]
                  /\ raised' = [raised EXCEPT ![c] = d.raise]
    /\ invocations' = invocations + 1
    /\ inflight' = [inflight EXCEPT ![c] = None]
    /\ waited' = [waited EXCEPT ![c] = 0]
    /\ elapsed' = [elapsed EXCEPT ![c] = 0]
    /\ remote' = [remote EXCEPT ![c] = NoRemote]
    /\ UNCHANGED PROXY_URL

\* time passes while the coroutine is suspended in the exchange
Tick(c) ==
    /\ pc[c] \in {"awaiting", "receiving"}
    /\ waited[c] < TIMEOUT
    /\ waited' = [waited EXCEPT ![c] = Min(@ + TickSeconds, TIMEOUT)]
    /\ elapsed' = [elapsed EXCEPT ![c] = Min(@ + TickSeconds, MaxElapsed)]
    /\ UNCHANGED <<PROXY_URL, pc, args, result, raised, sent, inflight, remote,
                   invocations, outbound>>

\* the remote answers in time: status line and headers arrive
RemoteReply(c, status, headers) ==
    /\ pc[c] = "awaiting"
    /\ waited[c] < TIMEOUT
    /\ inflight' = [inflight EXCEPT ![c] = Some([status_code |-> status, headers |-> headers])]
    /\ pc' = [pc EXCEPT ![c] = "receiving"]
    /\ waited' = [waited EXCEPT ![c] = 0]
    /\ remote' = [remote EXCEPT ![c].kind = "reply", ![c].status = status,
                                ![c].headers = headers]
    /\ UNCHANGED <<PROXY_URL, args, result, raised, sent, elapsed, invocations, outbound>>

\* some more bytes of the body arrive in time: the transport's wait starts again
Chunk(c) ==
    /\ pc[c] = "receiving"
    /\ 0 < waited[c] /\ waited[c] < TIMEOUT
    /\ waited' = [waited EXCEPT ![c] = 0]
    /\ UNCHANGED <<PROXY_URL, pc, args, result, raised, sent, inflight, elapsed, remote,
                   invocations, outbound>>

\* a completion that stores the response in a dict shared by the invocations
RemoteFinishShared(c, payload) ==
    /\ pc[c] = "receiving"
    /\ waited[c] < TIMEOUT
    /\ result' = [d \in Calls |->
                     IF pc[d] = "idle" THEN result[d]
                     ELSE [result[d] EXCEPT !.response =
                              Some(ResponseDict(inflight[c][1].status_code,
                                                inflight[c][1].headers, payload, elapsed[c]))]]
    /\ pc' = [pc EXCEPT ![c] = "closing"]
    /\ inflight' = [inflight EXCEPT ![c] = None]
    /\ remote' = [remote EXCEPT ![c].payload = payload]
    /\ UNCHANGED <<PROXY_URL, args, raised, sent, waited, elapsed, invocations, outbound>>

\* the body is complete: the await of client.get / ... returns the response, the
\* body is parsed, result["response"] is set, and the with block is left
\* (await of the client's __aexit__)
RemoteFinish(c, payload) ==
    /\ pc[c] = "receiving"
    /\ waited[c] < TIMEOUT
    /\ result' = [result EXCEPT ![c].response =
                     Some(ResponseDict(inflight[c][1].status_code, inflight[c][1].headers,
                                       payload, elapsed[c]))]
    /\ pc' = [pc EXCEPT ![c] = "closing"]
    /\ inflight' = [inflight EXCEPT ![c] = None]
    /\ remote' = [remote EXCEPT ![c].payload = payload]
    /\ UNCHANGED <<PROXY_URL, args, raised, sent, waited, elapsed, invocations, outbound>>

\* a transport that sends the request again when the exchange fails
TransportFailureRetry(c, message) ==
    /\ pc[c] \in {"awaiting", "receiving"}
    /\ IF Len(sent[c]) < 2
       THEN /\ sent' = [sent EXCEPT ![c] = Append(@, @[1])]
            /\ outbound' = outbound + 1
            /\ pc' = [pc EXCEPT ![c] = "awaiting"]
            /\ raised' = raised
            /\ remote' = remote
       ELSE /\ sent' = sent
            /\ outbound' = outbound
            /\ pc' = [pc EXCEPT ![c] = "closing"]
            /\ raised' = [raised EXCEPT ![c] = Some(message)]
            /\ remote' = [remote EXCEPT ![c].kind = "failure"]
    /\ inflight' = [inflight EXCEPT ![c] = None]
    /\ waited' = [waited EXCEPT ![c] = 0]
    /\ UNCHANGED <<PROXY_URL, args, result, elapsed, invocations>>

\* the exchange fails in the transport (connection refused, DNS failure, reset):
\* the await of client.get / ... raises and the exception leaves the with block
TransportFailure(c, message) ==
    /\ pc[c] \in {"awaiting", "receiving"}
    /\ raised' = [raised EXCEPT ![c] = Some(message)]
    /\ pc' = [pc EXCEPT ![c] = "closing"]
    /\ inflight' = [inflight EXCEPT ![c] = None]
    /\ remote' = [remote EXCEPT ![c].kind = "failure", ![c].message = message]
    /\ UNCHANGED <<PROXY_URL, args, result, sent, waited, elapsed, invocations, outbound>>

\* no bytes for TIMEOUT seconds: the transport raises its timeout exception
Timeout(c, message) ==
    /\ pc[c] \in {"awaiting", "receiving"}
    /\ waited[c] >= TIMEOUT
    /\ raised' = [raised EXCEPT ![c] = Some(message)]
    /\ pc' = [pc EXCEPT ![c] = "closing"]
    /\ inflight' = [inflight EXCEPT ![c] = None]
    /\ remote' = [remote EXCEPT ![c].kind = "timeout", ![c].message = message]
    /\ UNCHANGED <<PROXY_URL, args, result, sent, waited, elapsed, invocations, outbound>>

\* the client closes; an exception on its way out of the with block is caught by
\* except Exception and stringified; return result
CloseOk(c) ==
    /\ pc[c] = "closing"
    /\ result' = [result EXCEPT ![c].error =
                     IF IsSet(raised[c]) THEN Some(StrOf(raised[c][1])) ELSE @]
    /\ raised' = [raised EXCEPT ![c] = None]
    /\ pc' = [pc EXCEPT ![c] = "returned"]
    /\ remote' = [remote EXCEPT ![c].close = "ok"]
    /\ UNCHANGED <<PROXY_URL, args, sent, inflight, waited, elapsed, invocations, outbound>>

\* closing the connection kept from a completed exchange raises: the exception
\* is caught by except Exception and stringified; return result
CloseFail(c, message) ==
    /\ pc[c] = "closing"
    /\ IsSet(result[c].response)
    /\ result' = [result EXCEPT ![c].error = Some(StrOf(message))]
    /\ raised' = [raised EXCEPT ![c] = None]
    /\ pc' = [pc EXCEPT ![c] = "returned"]
    /\ remote' = [remote EXCEPT ![c].close = "failed", ![c].message = message]
    /\ UNCHANGED <<PROXY_URL, args, sent, inflight, waited, elapsed, invocations, outbound>>

\* the caller has taken the result; the coroutine and its locals are gone
Deliver(c) ==
    /\ pc[c] = "returned"
    /\ pc' = [pc EXCEPT ![c] = "idle"]
    /\ args' = [args EXCEPT ![c] = NoArgs]
    /\ result' = [result EXCEPT ![c] = NoResult]
    /\ sent' = [sent EXCEPT ![c] = <<>>]
    /\ waited' = [waited EXCEPT ![c] = 0]
    /\ elapsed' = [elapsed EXCEPT ![c] = 0]
    /\ remote' = [remote EXCEPT ![c] = NoRemote]
    /\ UNCHANGED <<PROXY_URL, raised, inflight, invocations, outbound>>

----------------------------------------------------------------------------
(* Inputs of the invocations and behaviours of the remote *)

AgentIds == {"agent-7", "b"}
SupportedMethods == {"GET", "POST", "PUT", "DELETE"}
Methods == SupportedMethods \cup {"PATCH", "get", ""}
Paths == {"/status", "status"}
Bodies == {"", "not json"}

Statuses == {200, 404, 500}
HeaderLists ==
    { << <<"content-type", "application/json">> >>,
      << <<"set-cookie", "a=1">>, <<"set-cookie", "b=2">> >> }

JsonObject == <<"{", "\"", "o", "k", "\"", ":", "t", "r", "u", "e", "}">>
JsonList == <<"[", "1", ",", " ", "2", "0", "]">>
JsonString == <<"\"", "h", "i", "\"">>
TextHello == <<"h", "e", "l", "l", "o">>
TextEmpty == <<>>
TextTruncated == <<"{", "\"", "o", "k", "\"", ":", "t", "r", "u">>
JsonPayloads == {JsonObject, JsonList, JsonString}
TextPayloads == {TextHello, TextEmpty, TextTruncated}
Payloads == JsonPayloads \cup TextPayloads

\* str(e) of the exceptions the transport raises: a connection error carries a
\* message, the timeout exceptions carry none
FailureMessages == {"All connection attempts failed", "Server disconnected without sending a response."}
TimeoutMessages == {""}
CloseMessages == {"[Errno 32] Broken pipe"}

\* the slot of the sequential specifications
Handler == 1

Next ==
    \/ \E a \in AgentIds, m \in Methods, p \in Paths, b \in Bodies :
           proxy_request(Handler, a, m, p, b)
    \/ Tick(Handler)
    \/ \E s \in Statuses, h \in HeaderLists : RemoteReply(Handler, s, h)
    \/ Chunk(Handler)
    \/ \E y \in Payloads : RemoteFinish(Handler, y)
    \/ \E e \in FailureMessages : TransportFailure(Handler, e)
    \/ \E e \in TimeoutMessages : Timeout(Handler, e)
    \/ CloseOk(Handler)
    \/ \E e \in CloseMessages : CloseFail(Handler, e)
    \/ Deliver(Handler)

Spec == Init /\ [][Next]_vars

\* The event loop resumes a coroutine whose await has completed, the clock
\* advances, the transport enforces its timeout and closing a client ends.
\* Nothing obliges the remote to answer, to go on or to finish.
Fairness ==
    /\ WF_vars(Tick(Handler))
    /\ WF_vars(\E e \in TimeoutMessages : Timeout(Handler, e))
    /\ WF_vars(CloseOk(Handler))
    /\ WF_vars(Deliver(Handler))

FairSpec == Spec /\ Fairness

\* Concurrent invocations, one per slot, on fewer inputs
ConcMethods == {"GET", "PATCH"}
ConcStatuses == {200}
ConcHeaderLists == { << <<"content-type", "application/json">> >> }
ConcPayloads == {JsonObject, TextHello}
ConcFailureMessages == {"All connection attempts failed"}

ConcNext ==
    \E c \in Calls :
        \/ \E m \in ConcMethods : proxy_request(c, "agent-7", m, "/status", "")
        \/ Tick(c)
        \/ \E s \in ConcStatuses, h \in ConcHeaderLists : RemoteReply(c, s, h)
        \/ Chunk(c)
        \/ \E y \in ConcPayloads : RemoteFinish(c, y)
        \/ \E e \in ConcFailureMessages : TransportFailure(c, e)
        \/ \E e \in TimeoutMessages : Timeout(c, e)
        \/ CloseOk(c)
        \/ \E e \in CloseMessages : CloseFail(c, e)
        \/ Deliver(c)

ConcSpec == Init /\ [][ConcNext]_vars

----------------------------------------------------------------------------
(* Properties *)

Returned(c) == pc[c] = "returned"
\* the exchange of slot c ran to its end: status line, headers and whole body
Completed(c) == remote[c].kind = "reply" /\ pc[c] \in {"closing", "returned"}
Failed(c) == remote[c].kind \in {"failure", "timeout"}

\* C1: every invocation returns a result in which exactly one of response and
\* error is set, whatever the remote does (reply, transport failure, timeout,
\* failure while the client closes).
C1_ExactlyOneOfResponseError ==
    \A c \in Calls :
        Returned(c) => (IsSet(result[c].response) # IsSet(result[c].error))

\* C2: a method outside {GET, POST, PUT, DELETE} (compared exactly) hands no
\* request to the transport at any point of the invocation, leaves response
\* unset, and returns with error set.
C2_UnsupportedMethod ==
    \A c \in Calls :
        (pc[c] # "idle" /\ args[c].method \notin {"GET", "POST", "PUT", "DELETE"}) =>
            /\ sent[c] = <<>>
            /\ pc[c] \in {"closing", "returned"}
            /\ result[c].response = None
            /\ Returned(c) => IsSet(result[c].error)

C2_Witness ==
    /\ Returned(Handler)
    /\ args[Handler].method = "get"
    /\ result[Handler].error = Some("Unsupported method: get")
    /\ sent[Handler] = <<>>

\* C3: an invocation with a supported method hands exactly one request to the
\* transport, whatever the outcome, and never a second one; over any sequence
\* of invocations the requests handed over never outnumber the invocations.
C3_OneCallNoRetry ==
    /\ outbound <= invocations
    /\ \A c \in Calls :
        /\ Len(sent[c]) <= 1
        /\ (pc[c] # "idle" /\ args[c].method \in {"GET", "POST", "PUT", "DELETE"}) =>
               Len(sent[c]) = 1

C3_Witness ==
    /\ Returned(Handler)
    /\ remote[Handler].kind = "failure"
    /\ Len(sent[Handler]) = 1
    /\ invocations = 2
    /\ outbound = 1

\* C4: whenever the exchange completes, with any status code, the returned
\* result has response set with that status code and error unset.
C4_StatusNeverAnError ==
    \A c \in Calls :
        (Returned(c) /\ Completed(c)) =>
            /\ IsSet(result[c].response)
            /\ result[c].response[1].status_code = remote[c].status
            /\ result[c].error = None

\* C5: whenever the exchange fails in the transport (refused, reset, timeout),
\* the returned result has response unset and error a non-empty string.
C5_FailureHasMessage ==
    \A c \in Calls :
        (Returned(c) /\ Failed(c)) =>
            /\ result[c].response = None
            /\ IsSet(result[c].error)
            /\ result[c].error[1] # ""

\* C6: every invocation that has started eventually returns its result,
\* whatever the remote does.
C6_AlwaysReturns ==
    \A c \in Calls :
        (pc[c] \in {"awaiting", "receiving", "closing"}) ~> Returned(c)

\* C7: the request handed to the transport carries a body exactly when the
\* method is POST or PUT: then the body is the one supplied, with the header
\* Content-Type: application/json; for GET and DELETE there is no body and no
\* such header, even when a body was supplied.
C7_BodyOnlyForPostPut ==
    \A c \in Calls :
        \A i \in DOMAIN sent[c] :
            /\ sent[c][i].method = args[c].method
            /\ IF args[c].method \in {"POST", "PUT"}
               THEN /\ sent[c][i].content = Some(args[c].body)
                    /\ <<"Content-Type", "application/json">> \in sent[c][i].headers
               ELSE /\ sent[c][i].content = None
                    /\ \A h \in sent[c][i].headers : h[1] # "Content-Type"

C7_Witness ==
    /\ Returned(Handler)
    /\ args[Handler].method = "GET"
    /\ args[Handler].body = "not json"
    /\ Len(sent[Handler]) = 1
    /\ sent[Handler][1].content = None
    /\ IsSet(result[Handler].response)

\* C8: once the exchange has completed, response.body is the parsed structure
\* when the payload is JSON and the payload's text, unchanged, when it is not;
\* parsing leaves no exception behind and error unset, and the invocation goes
\* on to return with error unset when its client closes.
C8_ExpectedBody(payload) ==
    IF payload = JsonObject THEN PyDict(<<PyStr(<<"o", "k">>), PyTrue>>)
    ELSE IF payload = JsonList THEN PyList(<<PyInt(<<"1">>), PyInt(<<"2", "0">>)>>)
    ELSE IF payload = JsonString THEN PyStr(<<"h", "i">>)
    ELSE PyStr(payload)

C8_BodyParsedOrText ==
    \A c \in Calls :
        /\ IsSet(result[c].response) =>
               result[c].response[1].body = C8_ExpectedBody(remote[c].payload)
        /\ Completed(c) =>
               /\ IsSet(result[c].response)
               /\ raised[c] = None
               /\ (pc[c] = "closing" \/ remote[c].close = "ok") => result[c].error = None

C8_Witness ==
    /\ Returned(Handler)
    /\ remote[Handler].payload = TextTruncated
    /\ result[Handler].response[1].body = PyStr(TextTruncated)
    /\ result[Handler].error = None

\* C9: concurrent invocations do not touch each other: a step changes the
\* state of one invocation only, the base address never changes, and two
\* returned results that come from the same request and the same behaviour of
\* the remote are equal.
C9_OneSlotPerStep ==
    \E c \in Calls :
        \A d \in Calls \ {c} :
            /\ pc'[d] = pc[d]
            /\ args'[d] = args[d]
            /\ result'[d] = result[d]
            /\ raised'[d] = raised[d]
            /\ sent'[d] = sent[d]
            /\ inflight'[d] = inflight[d]

C9_SameInputsSameResult ==
    \A c, d \in Calls :
        (/\ Returned(c) /\ Returned(d)
         /\ args[c] = args[d]
         /\ remote[c] = remote[d]
         /\ elapsed[c] = elapsed[d]) => result[c] = result[d]

C9_Independent ==
    /\ []C9_SameInputsSameResult
    /\ [][PROXY_URL' = PROXY_URL /\ C9_OneSlotPerStep]_vars

C9_Witness ==
    /\ Returned(1) /\ Returned(2)
    /\ remote[1].kind = "timeout"
    /\ result[1].response = None
    /\ remote[2].kind = "reply"
    /\ IsSet(result[2].response)
    /\ result[2].error = None

\* C10: the url of the request handed to the transport and the url echoed in
\* the result are the base address, "/proxy/", the agent id and the path, in
\* that order and unchanged; the echo of method, path and agent id equals the
\* inputs, whether the invocation ends with a response or with an error.
C10_UrlAndEcho ==
    \A c \in Calls :
        pc[c] # "idle" =>
            /\ result[c].request.url =
                   "http://localhost:8080" \o "/proxy/" \o args[c].agent_id \o args[c].path
            /\ (args[c].agent_id = "agent-7" /\ args[c].path = "/status") =>
                   result[c].request.url = "http://localhost:8080/proxy/agent-7/status"
            /\ result[c].request.method = args[c].method
            /\ result[c].request.path = args[c].path
            /\ result[c].request.agent_id = args[c].agent_id
            /\ \A i \in DOMAIN sent[c] : sent[c][i].url = result[c].request.url

C10_Witness ==
    /\ Returned(Handler)
    /\ args[Handler].path = "status"
    /\ result[Handler].request.url = "http://localhost:8080/proxy/agent-7status"
    /\ IsSet(result[Handler].error)
    /\ Len(sent[Handler]) = 1

====
